---------------------------- MODULE Spec2Model ----------------------------
(***************************************************************************)
(* Model of discord/sinks/mkv.py: MKVSink and its format_audio, together   *)
(* with the recording session that owns the sink, the per-participant      *)
(* audio objects, and the external encoder process that format_audio       *)
(* drives through its stdin / stdout pipes.                                *)
(*                                                                         *)
(* The session converts each audio object once: a call the guard rejected  *)
(* may be made again, a call that got past the guard is not repeated.  The *)
(* calls of different participants interleave freely (they run on          *)
(* different threads).  Each call is cut at the points where the code      *)
(* hands control to the outside: the guard, Popen, audio.file.read(), the  *)
(* reads and writes inside Popen.communicate, the replacement of           *)
(* audio.file, and the on_format hook.                                     *)
(***************************************************************************)
EXTENDS Integers, Sequences, FiniteSets, TLC

VARIABLES
    sink,       \* the MKVSink's fields: encoding, vc, audio_data, filters
    recording,  \* vc.recording, the voice client's flag
    audio,      \* participant -> its audio object (file = bytes + position)
    call,       \* participant -> the format_audio call made for its audio
    proc        \* participant -> the encoder process of that call

vars == <<sink, recording, audio, call, proc>>

(* Bounds of the model. *)
MaxPayload == 4     \* raw bytes a participant's buffer holds at most
PipeCap == 1        \* capacity of an OS pipe, in bytes

(* First byte of the container the encoder is asked for ("-f matroska"). *)
EBMLMagic == 26

Users == {1, 2}

NoVC == "None"
TheVC == "vc"

(* A byte of participant u's raw audio: each participant has its own pattern. *)
RawByte(u) == u

(* BytesIO(data) followed by seek(0). *)
BytesIO(data) == [data |-> data, pos |-> 0]

(* file.read(): everything from the current position to the end. *)
FileRead(f) == SubSeq(f.data, f.pos + 1, Len(f.data))

(* The encoder's transcoding of one input byte. *)
EncByte(b) == b + 10

RECURSIVE EncAll(_)
EncAll(s) == IF s = <<>> THEN <<>> ELSE <<EncByte(Head(s))>> \o EncAll(Tail(s))

(* The complete output of an encoder that consumed exactly s and exited 0. *)
Transcode(s) == <<EBMLMagic>> \o EncAll(s)

IsPrefix(s, t) == Len(s) <= Len(t) /\ SubSeq(t, 1, Len(s)) = s

(* The session's lifecycle state, read off the sink and the voice client. *)
SessionState ==
    IF sink.vc = NoVC THEN "Idle"
    ELSE IF recording THEN "Recording" ELSE "Stopped"

----------------------------------------------------------------------------
(* Construction. *)

NewSink ==
    [encoding |-> "mkv", vc |-> NoVC, audio_data |-> {}, filters |-> "default_filters"]

NewCall ==
    [pc |-> "idle", result |-> "none",
     entered |-> "none", pre |-> BytesIO(<<>>), sinkPre |-> NewSink,
     spawns |-> 0, spawnExc |-> "none",
     payload |-> <<>>, sent |-> 0, out |-> <<>>,
     hookFired |-> 0, hookTag |-> "none", hookFile |-> BytesIO(<<>>)]

NoProc ==
    [state |-> "none", stdin |-> <<>>, stdinOpen |-> FALSE,
     stdout |-> <<>>, stdoutOpen |-> FALSE, hdr |-> FALSE,
     consumed |-> <<>>, emitted |-> <<>>]

Init ==
    /\ sink = NewSink
    /\ recording = FALSE
    /\ audio = [u \in Users |-> [file |-> BytesIO(<<>>)]]
    /\ call = [u \in Users |-> NewCall]
    /\ proc = [u \in Users |-> NoProc]

----------------------------------------------------------------------------
(* The recording session that owns the sink. *)

StartRecording ==
    /\ SessionState = "Idle"
    /\ sink' = [sink EXCEPT !.vc = TheVC]
    /\ recording' = TRUE
    /\ UNCHANGED <<audio, call, proc>>

ReceiveFrame(u) ==
    /\ SessionState = "Recording"
    /\ Len(audio[u].file.data) < MaxPayload
    /\ sink' = [sink EXCEPT !.audio_data = @ \cup {u}]
    /\ audio' = [audio EXCEPT ![u].file =
                    [data |-> Append(@.data, RawByte(u)), pos |-> Len(@.data) + 1]]
    /\ UNCHANGED <<recording, call, proc>>

StopRecording ==
    /\ SessionState = "Recording"
    /\ recording' = FALSE
    /\ audio' = [u \in Users |-> [audio[u] EXCEPT !.file.pos = 0]]
    /\ UNCHANGED <<sink, call, proc>>


----------------------------------------------------------------------------
(* MKVSink.format_audio(audio), for the audio object of participant u. *)

RecordingGuard_NoFlagCheck(vcField, rec) ==
    IF vcField = NoVC THEN "AttributeError" ELSE "pass"

(* if self.vc.recording: raise MKVSinkError(...).  self.vc is None until a *)
(* voice client is attached, and None has no attribute "recording".        *)
RecordingGuard(vcField, rec) ==
    IF vcField = NoVC THEN "AttributeError"
    ELSE IF rec THEN "PrematureFormat"
    ELSE "pass"

GuardErrors == {"AttributeError", "PrematureFormat"}

(* The ways subprocess.Popen can end: started, or one of the exceptions it *)
(* raises.  PermissionError and BlockingIOError ("resource temporarily     *)
(* unavailable") are OSErrors and no SubprocessError.                      *)
PopenOutcomes ==
    {"started", "FileNotFoundError", "SubprocessError", "PermissionError",
     "BlockingIOError"}

ClassifySpawn_NoNotFoundClause(exc) ==
    IF exc = "SubprocessError" THEN "PopenFailed" ELSE exc

(* The except clauses around Popen: what format_audio raises for exc. *)
ClassifySpawn(exc) ==
    IF exc = "FileNotFoundError" THEN "ToolNotFound"
    ELSE IF exc = "SubprocessError" THEN "PopenFailed"
    ELSE exc

ProcOf_SharedField(u) == CHOOSE p \in Users : \A q \in Users : p <= q

(* The local variable "process" of the call for u: the process it spawned. *)
ProcOf(u) == u

(* The argument of audio.on_format. *)
HookArg == sink.encoding

Guard(u) ==
    /\ call[u].pc = "idle"
    /\ call[u].result \in {"none"} \cup GuardErrors
    /\ LET g == RecordingGuard(sink.vc, recording)
           fresh == [NewCall EXCEPT !.entered = SessionState,
                         !.pre = audio[u].file,
                         !.sinkPre = sink]
       IN call' = [call EXCEPT ![u] =
                     IF g = "pass" THEN [fresh EXCEPT !.pc = "spawn"]
                     ELSE [fresh EXCEPT !.result = g]]
    /\ UNCHANGED <<sink, recording, audio, proc>>

Popen_ClearOnFailure(u) ==
    /\ call[u].pc = "spawn"
    /\ \E o \in PopenOutcomes :
         IF o = "started"
         THEN /\ proc' = [proc EXCEPT ![ProcOf(u)] =
                            [NoProc EXCEPT !.state = "running",
                                           !.stdinOpen = TRUE,
                                           !.stdoutOpen = TRUE]]
              /\ call' = [call EXCEPT ![u].pc = "read", ![u].spawns = @ + 1]
              /\ UNCHANGED sink
         ELSE /\ call' = [call EXCEPT ![u].pc = "idle",
                                      ![u].spawnExc = o,
                                      ![u].result = ClassifySpawn(o)]
              /\ sink' = [sink EXCEPT !.audio_data = {}]
              /\ UNCHANGED proc
    /\ UNCHANGED <<recording, audio>>

Popen(u) ==
    /\ call[u].pc = "spawn"
    /\ \E o \in PopenOutcomes :
         IF o = "started"
         THEN /\ proc' = [proc EXCEPT ![ProcOf(u)] =
                            [NoProc EXCEPT !.state = "running",
                                           !.stdinOpen = TRUE,
                                           !.stdoutOpen = TRUE]]
              /\ call' = [call EXCEPT ![u].pc = "read", ![u].spawns = @ + 1]
         ELSE /\ call' = [call EXCEPT ![u].pc = "idle",
                                      ![u].spawnExc = o,
                                      ![u].result = ClassifySpawn(o)]
              /\ UNCHANGED proc
    /\ UNCHANGED <<sink, recording, audio>>

(* audio.file.read(), the argument of communicate, evaluated after Popen. *)
ReadFile(u) ==
    /\ call[u].pc = "read"
    /\ \/ /\ call' = [call EXCEPT ![u].pc = "communicate",
                                  ![u].payload = FileRead(audio[u].file)]
          /\ audio' = [audio EXCEPT ![u].file.pos = Len(audio[u].file.data)]
       \/ /\ call' = [call EXCEPT ![u].pc = "idle", ![u].result = "ReadError"]
          /\ UNCHANGED audio
    /\ UNCHANGED <<sink, recording, proc>>

----------------------------------------------------------------------------
(* process.communicate(input): the payload is written to the process's     *)
(* stdin and its stdout is read to end-of-file, whichever pipe is ready    *)
(* first; then stdin and stdout are closed and the process is waited for.  *)

CanDrain_AfterWrite(u) ==
    /\ proc[ProcOf(u)].stdoutOpen
    /\ proc[ProcOf(u)].stdout # <<>>
    /\ ~proc[ProcOf(u)].stdinOpen

(* communicate reads stdout whenever it holds data, whatever is left to write. *)
CanDrain(u) ==
    /\ proc[ProcOf(u)].stdoutOpen
    /\ proc[ProcOf(u)].stdout # <<>>

(* communicate writes the next byte of the payload when stdin has room. *)
CanFeed(u) ==
    /\ proc[ProcOf(u)].stdinOpen
    /\ proc[ProcOf(u)].state = "running"
    /\ call[u].sent < Len(call[u].payload)
    /\ Len(proc[ProcOf(u)].stdin) < PipeCap

Drained_KeepLast(out, b) == <<b>>

(* What communicate appends to its result when it reads b from stdout. *)
Drained(out, b) == Append(out, b)

CommWrite(u) ==
    /\ call[u].pc = "communicate"
    /\ CanFeed(u)
    /\ proc' = [proc EXCEPT ![ProcOf(u)].stdin =
                    Append(@, call[u].payload[call[u].sent + 1])]
    /\ call' = [call EXCEPT ![u].sent = @ + 1]
    /\ UNCHANGED <<sink, recording, audio>>

(* All input written (or none to write): stdin is closed.  A write to a    *)
(* process that has exited raises BrokenPipeError, which communicate       *)
(* swallows, closing stdin as well.                                        *)
CommCloseStdin(u) ==
    /\ call[u].pc = "communicate"
    /\ proc[ProcOf(u)].stdinOpen
    /\ \/ call[u].sent = Len(call[u].payload)
       \/ proc[ProcOf(u)].state # "running"
    /\ proc' = [proc EXCEPT ![ProcOf(u)].stdinOpen = FALSE]
    /\ UNCHANGED <<sink, recording, audio, call>>

CommRead(u) ==
    /\ call[u].pc = "communicate"
    /\ CanDrain(u)
    /\ call' = [call EXCEPT ![u].out = Drained(@, Head(proc[ProcOf(u)].stdout))]
    /\ proc' = [proc EXCEPT ![ProcOf(u)].stdout = Tail(@)]
    /\ UNCHANGED <<sink, recording, audio>>

(* End-of-file on stdout: the process has exited and the pipe is empty. *)
CommEOF(u) ==
    /\ call[u].pc = "communicate"
    /\ proc[ProcOf(u)].stdoutOpen
    /\ proc[ProcOf(u)].stdout = <<>>
    /\ proc[ProcOf(u)].state \in {"exit0", "exit1"}
    /\ proc' = [proc EXCEPT ![ProcOf(u)].stdoutOpen = FALSE]
    /\ UNCHANGED <<sink, recording, audio, call>>

(* self.wait(): the process is reaped; its return code is not looked at. *)
CommWait(u) ==
    /\ call[u].pc = "communicate"
    /\ ~proc[ProcOf(u)].stdinOpen
    /\ ~proc[ProcOf(u)].stdoutOpen
    /\ proc[ProcOf(u)].state \in {"exit0", "exit1"}
    /\ proc' = [proc EXCEPT ![ProcOf(u)].state =
                    IF @ = "exit0" THEN "reaped0" ELSE "reaped1"]
    /\ call' = [call EXCEPT ![u].pc = "wrap"]
    /\ UNCHANGED <<sink, recording, audio>>

(* out = io.BytesIO(out); out.seek(0); audio.file = out *)
ReplaceFile(u) ==
    /\ call[u].pc = "wrap"
    /\ audio' = [audio EXCEPT ![u].file = BytesIO(call[u].out)]
    /\ call' = [call EXCEPT ![u].pc = "on_format"]
    /\ UNCHANGED <<sink, recording, proc>>

(* audio.on_format(self.encoding) *)
OnFormat(u) ==
    /\ call[u].pc = "on_format"
    /\ call' = [call EXCEPT ![u].pc = "idle",
                            ![u].result = "ok",
                            ![u].payload = <<>>,
                            ![u].sent = 0,
                            ![u].out = <<>>,
                            ![u].hookFired = @ + 1,
                            ![u].hookTag = HookArg,
                            ![u].hookFile = audio[u].file]
    /\ UNCHANGED <<sink, recording, audio, proc>>

----------------------------------------------------------------------------
(* The external encoder: ffmpeg -f s16le ... -i - -f matroska pipe:1.      *)
(* It reads raw audio from its stdin and writes the container to its       *)
(* stdout; it blocks when stdin is empty and when stdout is full.          *)

EncHeader(p) ==
    /\ proc[p].state = "running"
    /\ ~proc[p].hdr
    /\ Len(proc[p].stdout) < PipeCap
    /\ proc' = [proc EXCEPT ![p].hdr = TRUE,
                            ![p].stdout = Append(@, EBMLMagic),
                            ![p].emitted = Append(@, EBMLMagic)]
    /\ UNCHANGED <<sink, recording, audio, call>>

EncStep(p) ==
    /\ proc[p].state = "running"
    /\ proc[p].hdr
    /\ proc[p].stdin # <<>>
    /\ Len(proc[p].stdout) < PipeCap
    /\ LET b == Head(proc[p].stdin)
       IN proc' = [proc EXCEPT ![p].stdin = Tail(@),
                               ![p].consumed = Append(@, b),
                               ![p].stdout = Append(@, EncByte(b)),
                               ![p].emitted = Append(@, EncByte(b))]
    /\ UNCHANGED <<sink, recording, audio, call>>

(* End of input: the encoder finishes and exits with status 0. *)
EncExit(p) ==
    /\ proc[p].state = "running"
    /\ proc[p].hdr
    /\ proc[p].stdin = <<>>
    /\ ~proc[p].stdinOpen
    /\ proc' = [proc EXCEPT ![p].state = "exit0"]
    /\ UNCHANGED <<sink, recording, audio, call>>

(* The encoder fails (bad input, killed, out of disk): non-zero exit,      *)
(* whatever it had not read is lost.                                       *)
EncFail(p) ==
    /\ proc[p].state = "running"
    /\ proc' = [proc EXCEPT ![p].state = "exit1", ![p].stdin = <<>>]
    /\ UNCHANGED <<sink, recording, audio, call>>

----------------------------------------------------------------------------
FormatAudio(u) ==
    \/ Guard(u)
    \/ Popen(u)
    \/ ReadFile(u)
    \/ CommWrite(u)
    \/ CommCloseStdin(u)
    \/ CommRead(u)
    \/ CommEOF(u)
    \/ CommWait(u)
    \/ ReplaceFile(u)
    \/ OnFormat(u)

Encoder(p) ==
    \/ EncHeader(p)
    \/ EncStep(p)
    \/ EncExit(p)
    \/ EncFail(p)

Next ==
    \/ StartRecording
    \/ \E u \in Users : ReceiveFrame(u)
    \/ StopRecording
    \/ \E u \in Users : FormatAudio(u)
    \/ \E p \in Users : Encoder(p)

Spec == Init /\ [][Next]_vars

(* The scheduling the liveness claim assumes: communicate keeps servicing  *)
(* whichever pipe is ready, and the encoder keeps consuming input and      *)
(* emitting output and exits at end of input.  Nothing obliges a call to   *)
(* be made, Popen to return, or the encoder to fail.                       *)
Fairness ==
    \A u \in Users :
        /\ WF_vars(CommWrite(u))
        /\ WF_vars(CommCloseStdin(u))
        /\ WF_vars(CommRead(u))
        /\ WF_vars(CommEOF(u))
        /\ WF_vars(CommWait(u))
        /\ WF_vars(EncHeader(u))
        /\ WF_vars(EncStep(u))
        /\ WF_vars(EncExit(u))

(* The same system with the conversions made one after the other, as the   *)
(* sink's cleanup loop makes them: a call enters only when no other call   *)
(* is in flight.                                                           *)
OneCallInFlight == Cardinality({u \in Users : call[u].pc # "idle"}) <= 1

SerialNext == Next /\ OneCallInFlight'

FairSpec == Init /\ [][SerialNext]_vars /\ Fairness

----------------------------------------------------------------------------
(* Vocabulary of the properties. *)

Ended(u) == call[u].pc = "idle" /\ call[u].result # "none"

InProgress(u) == call[u].pc # "idle"

Failed(u) == Ended(u) /\ call[u].result # "ok"

(* The process's pipes are closed and the process is gone or reaped. *)
Released(p) ==
    /\ proc[p].state \in {"none", "reaped0", "reaped1"}
    /\ ~proc[p].stdinOpen
    /\ ~proc[p].stdoutOpen

(* The raw bytes the call for u was given: the file as it stood at entry. *)
RawAtEntry(u) == FileRead(call[u].pre)

(* Writer stuck on a full stdin, encoder stuck on a full stdout, nobody reading. *)
PipeDeadlock(u) ==
    /\ call[u].pc = "communicate"
    /\ proc[ProcOf(u)].state = "running"
    /\ call[u].sent < Len(call[u].payload)
    /\ Len(proc[ProcOf(u)].stdin) = PipeCap
    /\ Len(proc[ProcOf(u)].stdout) = PipeCap
    /\ ~CanDrain(u)

----------------------------------------------------------------------------
(* C1: every format_audio call made while the session is not Stopped (Idle *)
(* or Recording) ends with the premature-format error and spawns no        *)
(* process.  Refuted from Idle: self.vc is None there.                     *)
C1_PrematureFormatGuard ==
    \A u \in Users :
        (Ended(u) /\ call[u].entered \in {"Idle", "Recording"})
            => (call[u].result = "PrematureFormat" /\ call[u].spawns = 0)

(* C2: when the encoder was started and exited abnormally or wrote         *)
(* nothing, the call ends with a conversion-failed error, the audio        *)
(* object's file is the one it had, and on_format was not fired.           *)
C2_AllOrNothing ==
    \A u \in Users :
        ( /\ Ended(u)
          /\ call[u].spawns > 0
          /\ \/ proc[ProcOf(u)].state = "reaped1"
             \/ (proc[ProcOf(u)].state = "reaped0" /\ proc[ProcOf(u)].emitted = <<>>) )
            => /\ call[u].result = "ConversionFailed"
               /\ audio[u].file.data = call[u].pre.data
               /\ call[u].hookFired = 0

(* C3: writing the payload and reading the output overlap: a conversion    *)
(* that reached communicate gets out of it, whatever the payload size, and *)
(* no state has the writer blocked on a full stdin while the encoder is    *)
(* blocked on a full stdout with nobody draining it.                       *)
C3_NoPipeDeadlock ==
    /\ \A u \in Users : (call[u].pc = "communicate") ~> (call[u].pc = "wrap")
    /\ [](\A u \in Users : ~PipeDeadlock(u))

C3_Witness ==
    \E u \in Users :
        /\ call[u].pc = "wrap"
        /\ Len(call[u].payload) > 2 * PipeCap
        /\ proc[ProcOf(u)].state = "reaped0"
        /\ proc[ProcOf(u)].consumed = call[u].payload

(* C4: when the encoder executable is absent (Popen raises                 *)
(* FileNotFoundError), the call ends with the tool-not-found error, the    *)
(* session is still Stopped, the sink's fields and the audio object's file *)
(* are as they were at entry, and on_format was not fired.                 *)
C4_ToolNotFound ==
    \A u \in Users :
        (call[u].spawnExc = "FileNotFoundError")
            => /\ Ended(u)
               /\ call[u].result = "ToolNotFound"
               /\ call[u].entered = "Stopped"
               /\ SessionState = "Stopped"
               /\ sink = call[u].sinkPre
               /\ audio[u].file = call[u].pre
               /\ call[u].hookFired = 0
               /\ call[u].spawns = 0

C4_Witness ==
    \E u \in Users :
        /\ call[u].spawnExc = "FileNotFoundError"
        /\ call[u].result = "ToolNotFound"
        /\ call[u].pre.data # <<>>

(* C5: however a format_audio call ends, the process it spawned is reaped  *)
(* and both pipes are closed.                                              *)
C5_ResourcesReleased ==
    \A u \in Users : (Ended(u) /\ call[u].spawns > 0) => Released(ProcOf(u))

(* C6: after a successful call the audio object's file is a stream at      *)
(* offset 0 holding exactly what the encoder wrote to stdout up to its     *)
(* exit, on_format was handed the sink's tag "mkv", fired once, and fired  *)
(* after the file was replaced.                                            *)
C6_SuccessResult ==
    \A u \in Users :
        /\ (call[u].result = "ok") =>
              /\ audio[u].file = [data |-> proc[ProcOf(u)].emitted, pos |-> 0]
              /\ call[u].hookTag = "mkv"
              /\ call[u].hookFired = 1
              /\ call[u].hookFile = audio[u].file
        /\ (call[u].pc = "on_format") =>
              /\ audio[u].file = [data |-> proc[ProcOf(u)].emitted, pos |-> 0]
              /\ call[u].hookFired = 0

C6_Witness ==
    \E u \in Users :
        /\ call[u].result = "ok"
        /\ proc[ProcOf(u)].state = "reaped0"
        /\ Len(audio[u].file.data) > PipeCap + 1
        /\ audio[u].file.data = Transcode(RawAtEntry(u))

(* C7: every failure to start the process ends the call with a classified  *)
(* error: tool-not-found exactly when the executable was not found, the    *)
(* spawn error otherwise.                                                  *)
C7_SpawnFailureClassified ==
    \A u \in Users :
        (call[u].spawnExc # "none") =>
            /\ call[u].result \in {"ToolNotFound", "PopenFailed"}
            /\ (call[u].result = "ToolNotFound") <=> (call[u].spawnExc = "FileNotFoundError")

(* C8: calls for different participants each spawn their own process (as   *)
(* many processes exist as calls have spawned one); a process is fed only  *)
(* bytes of its own call's participant, in order, and a call collects and  *)
(* stores only what its own process emitted.                               *)
C8_NoCrossParticipantMixing ==
    /\ Cardinality({p \in Users : proc[p].state # "none"})
          = Cardinality({u \in Users : call[u].spawns > 0})
    /\ \A u \in Users :
        /\ call[u].spawns <= 1
        /\ (call[u].spawns = 1) =>
              LET p == proc[ProcOf(u)] IN
              /\ IsPrefix(p.consumed \o p.stdin, RawAtEntry(u))
              /\ p.emitted = SubSeq(Transcode(p.consumed), 1, Len(p.emitted))
              /\ (call[u].pc = "communicate") => (call[u].out \o p.stdout = p.emitted)
              /\ (call[u].result = "ok") => (audio[u].file.data = p.emitted)

C8_Witness ==
    /\ \A u \in Users :
          /\ call[u].pc = "communicate"
          /\ proc[ProcOf(u)].consumed # <<>>
          /\ call[u].out # <<>>
    /\ \E u, v \in Users : RawAtEntry(u) # RawAtEntry(v)

(* C9: a step of the format_audio call for one participant, or of its      *)
(* encoder, changes neither the sink's fields, nor the recording flag, nor *)
(* any other participant's audio object, call or process; in particular a  *)
(* call that fails leaves them as they were.                               *)
C9_FailureIsolation ==
    [][\A u \in Users :
          (call'[u] # call[u] \/ proc'[ProcOf(u)] # proc[ProcOf(u)]) =>
              /\ sink' = sink
              /\ recording' = recording
              /\ \A v \in Users \ {u} :
                    /\ audio'[v] = audio[v]
                    /\ call'[v] = call[v]
                    /\ proc'[ProcOf(v)] = proc[ProcOf(v)]]_vars

C9_Witness ==
    \E u, v \in Users :
        /\ u # v
        /\ Failed(u)
        /\ call[u].result \notin GuardErrors
        /\ call[v].result = "ok"
        /\ sink.audio_data = Users
        /\ audio[v].file.data = Transcode(RawAtEntry(v))
        /\ Len(RawAtEntry(v)) > 1

(* C10: while a format_audio call is past its guard and has not returned,  *)
(* the session is Stopped (not Recording), and no participant's buffer is  *)
(* appended to: the bytes of an audio object change only when its own     *)
(* call replaces its file with the encoder's output.                       *)
C10_NoConversionWhileRecording ==
    /\ [](\A u \in Users :
            InProgress(u) =>
                /\ SessionState = "Stopped"
                /\ call[u].entered = "Stopped")
    /\ [][(\E u \in Users : InProgress(u)) =>
            \A v \in Users :
                \/ audio'[v].file.data = audio[v].file.data
                \/ call[v].pc = "wrap"]_vars

C10_Witness ==
    \E u, v \in Users :
        /\ u # v
        /\ call[u].pc = "communicate"
        /\ call[u].payload # <<>>
        /\ call[v].result = "PrematureFormat"
============================================================================
